---- MODULE Spec2Model ----
(***************************************************************************)
(* Model of the payment gateway's transaction processing and settlement    *)
(* engine: idempotent intake (app/api/v1/deposits.py, withdrawals.py),     *)
(* the transaction and balance services (app/services/                     *)
(* transaction_service.py), the Celery settlement jobs                     *)
(* (app/tasks/transaction_tasks.py) and the webhook reconciliation task    *)
(* (app/tasks/webhook_tasks.py).                                           *)
(*                                                                         *)
(* Amounts and balances are in cents (Numeric(15, 2)).  Every database     *)
(* commit of the code is one atomic step of the model; a handler that      *)
(* commits several times is a sequence of steps, with the handler's        *)
(* position kept in its pc.                                                *)
(***************************************************************************)
EXTENDS Integers, Sequences, FiniteSets, TLC

\* ------------------------------------------------------------------ bounds

\* Largest request amount, in cents.
MaxAmount == 2
\* The balance every user starts with, in cents.
InitialBalance == 1

\* max_retries of the settlement tasks.
MaxRetries == 5

\* The limit and window_seconds arguments of the rate-limit checks, in
\* requests and clock ticks, and the number of checks followed.
Limit == 2
WindowSeconds == 3
MaxChecks == Limit + 2

\* The users of the users table, the Idempotency-Key values clients send,
\* the intake requests that arrive (each creates at most one transaction,
\* so these are also the transaction ids) and the webhook tasks that are
\* delivered.
AllUsers == {"u1", "u2"}
Keys == <<"k1", "k2">>
RequestIds == 1..2
TxIds == RequestIds
\* The deliveries of settlement-task messages: delivery t is the message
\* intake queued for transaction t, delivery Redelivery(t) a second
\* delivery of that message (task_acks_late: a message is acknowledged only
\* when its task has returned, and an unacknowledged message can be
\* delivered again).  TransactionOf(j) is the argument of the task.
FirstDeliveries == Cardinality(TxIds)
Redelivery(t) == t + FirstDeliveries
JobIds == TxIds \cup {Redelivery(t) : t \in TxIds}
TransactionOf(j) == IF j <= FirstDeliveries THEN j ELSE j - FirstDeliveries
WebhookIds == 1..2
Amounts == 1..MaxAmount

\* ------------------------------------------------------- enumerated values

\* TransactionType
DEPOSIT == "deposit"
WITHDRAWAL == "withdrawal"
TransactionType == {DEPOSIT, WITHDRAWAL}

\* TransactionStatus
PENDING == "pending"
PROCESSING == "processing"
SUCCESS == "success"
FAILED == "failed"
TransactionStatus == {PENDING, PROCESSING, SUCCESS, FAILED}
Terminal == {SUCCESS, FAILED}

\* HTTP status codes used by intake.
HTTP_202_ACCEPTED == 202
HTTP_400_BAD_REQUEST == 400
\* The framework's answer to a request that fails validation.
HTTP_422_UNPROCESSABLE_ENTITY == 422
HTTP_500_INTERNAL_SERVER_ERROR == 500

\* Outcomes of one bank call: success or one of the typed errors.
BankTimeoutError == "BankTimeoutError"
BankSystemUnavailableError == "BankSystemUnavailableError"
InsufficientFundsError == "InsufficientFundsError"
BankAPIError == "BankAPIError"
BANK_OK == "ok"
\* A task that retries on every bank error.
AutoretryFor_AllBankErrors ==
    {BankTimeoutError, BankSystemUnavailableError, InsufficientFundsError, BankAPIError}
\* autoretry_for of the settlement tasks, also the first except clause.
AutoretryFor == {BankTimeoutError, BankSystemUnavailableError}

\* process_deposit draws its error from three kinds, process_withdrawal
\* from four.
BankOutcomes(type) ==
    IF type = DEPOSIT
    THEN {BANK_OK, BankTimeoutError, BankSystemUnavailableError, BankAPIError}
    ELSE {BANK_OK, BankTimeoutError, BankSystemUnavailableError,
          InsufficientFundsError, BankAPIError}

\* str(e) of each bank error.
BankErrorText(exc) ==
    CASE exc = BankTimeoutError -> "Bank API request timed out"
      [] exc = BankSystemUnavailableError -> "Bank system is temporarily unavailable"
      [] exc = InsufficientFundsError -> "Insufficient funds in bank account"
      [] OTHER -> "Invalid request parameters"

\* ---------------------------------------------------------------- messages

\* An error message: its text, whether the worker's outer handler wrapped it
\* in "Internal error: ...", and the two numbers an insufficient-balance
\* message carries.
Msg(text, internal, available, required) ==
    [text |-> text, internal |-> internal,
     available |-> available, required |-> required]
NoMsg == Msg("", FALSE, 0, 0)
BankMsg(exc) == Msg(BankErrorText(exc), FALSE, 0, 0)
\* InsufficientBalanceError(f"Insufficient balance. Available: ..., Required: ...")
InsufficientBalanceMsg(available, required) ==
    Msg("Insufficient balance", FALSE, available, required)
\* f"Internal error: {str(e)}"
\* An internal-error message that drops the text of the exception.
InternalError_Opaque(m) == Msg("", TRUE, 0, 0)
InternalError(m) == [m EXCEPT !.internal = TRUE]

\* A bank reference: "DEP-<hex>" or "WTH-<hex>" from the simulator (the hex
\* part is fresh for every call: the transaction and the attempt stand for
\* it), or the reference a webhook carries.
Ref(prefix, id, attempt) == [prefix |-> prefix, id |-> id, attempt |-> attempt]
NoRef == Ref("", 0, 0)
\* One prefix for both kinds of reference.
BankPrefix_Shared(type) == "WTH"
BankPrefix(type) == IF type = DEPOSIT THEN "DEP" ELSE "WTH"

VARIABLES
    balance,           \* users.balance, per user
    transactions,      \* the transactions table: a sequence, id = index
    idempotency_keys,  \* the idempotency_keys table: a set of rows
    requests,          \* intake requests and where each one stands
    jobs,              \* the settlement task of each transaction
    webhooks,          \* webhook tasks and where each one stands
    ledger,            \* per transaction, the ledger mutations applied for
                       \* it by the worker and by webhook tasks
    schema,            \* how the database's tables were created
    now,               \* time.time(), in clock ticks
    window,            \* the rate limiter's sorted set of one key
    rate_log,          \* the results of the key's rate-limit checks
    purge_log,         \* the last run of the idempotency-key cleanup task
    listing,           \* the last answer of list_transactions
    calls              \* concurrent rate-limit checks of the key and where each stands

\* The state of the payment flow and the state of the rate limiter.
payments == <<balance, transactions, idempotency_keys, requests, jobs, webhooks, ledger>>
limiter == <<now, window, rate_log, calls>>

vars == <<balance, transactions, idempotency_keys, requests, jobs, webhooks, ledger,
          schema, now, window, rate_log, purge_log, listing, calls>>

\* ------------------------------------------------------------------- rows

\* A row of the transactions table as it is inserted (created_at is the
\* server default now(); updated_at left out).
TransactionRow(id, user_id, type, status, amount, key) ==
    [id |-> id, user_id |-> user_id, type |-> type, status |-> status,
     amount |-> amount, bank_reference |-> NoRef, error_message |-> NoMsg,
     idempotency_key |-> key, created_at |-> now]
NoTransaction ==
    [id |-> 0, user_id |-> "", type |-> "", status |-> "",
     amount |-> 0, bank_reference |-> NoRef, error_message |-> NoMsg,
     idempotency_key |-> "", created_at |-> 0]

\* A response body: a serialised transaction (TransactionResponse), the
\* insufficient-balance error dict, or the detail of an HTTPException.
Body(shape, tx, text, msg) == [shape |-> shape, tx |-> tx, text |-> text, msg |-> msg]
NoBody == Body("none", NoTransaction, "", NoMsg)
\* DepositResponse.model_validate(transaction).model_dump(mode='json')
TransactionBody(tx) == Body("transaction", tx, "", NoMsg)
\* {"error": "insufficient_balance", "message": str(e)}
ErrorBody(msg) == Body("error", NoTransaction, "insufficient_balance", msg)
\* HTTPException(status_code=400, detail=error_response): {"detail": {...}}
DetailBody(msg) == Body("detail", NoTransaction, "insufficient_balance", msg)
\* HTTPException(status_code=500, detail="Failed to create ... transaction")
FailureBody(text) == Body("detail", NoTransaction, text, NoMsg)

\* A row of the idempotency_keys table; created_at has
\* server_default=func.now().
IdempotencyKey(user_id, key, status_code, response_body) ==
    [user_id |-> user_id, key |-> key,
     response_status |-> status_code, response_body |-> response_body,
     created_at |-> now]
NoKey ==
    [user_id |-> "", key |-> "", response_status |-> 0, response_body |-> NoBody,
     created_at |-> 0]

\* ------------------------------------------------- TransactionService

\* The rows a (user, key) pair selects.
KeyRows(rows, user_id, key) == {k \in rows : k.user_id = user_id /\ k.key = key}

\* check_idempotency_key: the row of the pair, or None.
check_idempotency_key(rows, user_id, key) ==
    IF KeyRows(rows, user_id, key) = {}
    THEN NoKey
    ELSE CHOOSE k \in KeyRows(rows, user_id, key) : TRUE

\* UniqueConstraint('user_id', 'key'): the insert of save_idempotency_key
\* raises IntegrityError at commit when the pair has a row.
UniqueViolation(rows, user_id, key) == KeyRows(rows, user_id, key) # {}

\* A save that replaces the record of the pair.
save_idempotency_key_replacing(rows, user_id, key, status_code, response_body) ==
    (rows \ KeyRows(rows, user_id, key))
        \cup {IdempotencyKey(user_id, key, status_code, response_body)}

\* save_idempotency_key: the table after the insert (unchanged when the
\* commit raises).
save_idempotency_key(rows, user_id, key, status_code, response_body) ==
    IF UniqueViolation(rows, user_id, key)
    THEN rows
    ELSE rows \cup {IdempotencyKey(user_id, key, status_code, response_body)}

\* create_deposit / create_withdrawal: the table with the new pending row.
create_transaction(txs, user_id, type, amount, key) ==
    Append(txs, TransactionRow(Len(txs) + 1, user_id, type, PENDING, amount, key))

\* create_withdrawal's check under the user's row lock.
InsufficientAtIntake(bal, user_id, amount) == bal[user_id] < amount

\* update_transaction_status: sets the status whatever the current one is;
\* bank_reference and error_message are set when given (truthy).
update_transaction_status(txs, id, status, bank_reference, error_message) ==
    [txs EXCEPT ![id] =
        [@ EXCEPT !.status = status,
                  !.bank_reference =
                      IF bank_reference # NoRef THEN bank_reference ELSE @,
                  !.error_message =
                      IF error_message # NoMsg THEN error_message ELSE @]]

\* A debit check that refuses only a balance already negative.
DebitRefused_NegativeOnly(bal, user_id, amount) == bal[user_id] < 0

\* The check of update_user_balance's "subtract" branch.
DebitRefused(bal, user_id, amount) == bal[user_id] < amount

\* A balance update that subtracts without the check.
update_user_balance_unchecked(bal, user_id, amount, operation) ==
    [raised |-> FALSE,
     balance |-> [bal EXCEPT ![user_id] =
                     IF operation = "add" THEN @ + amount ELSE @ - amount]]

\* A balance update that writes the new balance to every user's row.
update_user_balance_every_row(bal, user_id, amount, operation) ==
    IF operation = "add"
    THEN [raised |-> FALSE, balance |-> [u \in DOMAIN bal |-> bal[user_id] + amount]]
    ELSE IF bal[user_id] < amount
         THEN [raised |-> TRUE, balance |-> bal]
         ELSE [raised |-> FALSE, balance |-> [u \in DOMAIN bal |-> bal[user_id] - amount]]

\* update_user_balance: whether it raises InsufficientBalanceError, and the
\* balances after it (the check and the write are under one row lock and
\* one commit).
update_user_balance(bal, user_id, amount, operation) ==
    IF operation = "add"
    THEN [raised |-> FALSE, balance |-> [bal EXCEPT ![user_id] = @ + amount]]
    ELSE IF DebitRefused(bal, user_id, amount)
         THEN [raised |-> TRUE, balance |-> bal]
         ELSE [raised |-> FALSE, balance |-> [bal EXCEPT ![user_id] = @ - amount]]

\* -------------------------------------------------------------- processes

\* An intake request: its position, its input (user, Idempotency-Key,
\* endpoint, amount), the transaction it created, whether its lookup found
\* a stored record, and its response.
Request(pc, user_id, key, type, amount, tx, hit, status_code, body) ==
    [pc |-> pc, user_id |-> user_id, key |-> key, type |-> type,
     amount |-> amount, tx |-> tx, hit |-> hit,
     status_code |-> status_code, body |-> body]
NewRequest == Request("new", "", "", "", 0, 0, FALSE, 0, NoBody)

\* A settlement task: its position, self.request.retries, the outcome of
\* its last bank call and the exception in flight.
Job(pc, retries, bank, exc, error) ==
    [pc |-> pc, retries |-> retries, bank |-> bank, exc |-> exc, error |-> error]
NoJob == Job("none", 0, "", "", NoMsg)
QueuedJob == Job("queued", 0, "", "", NoMsg)

\* settings.WEBHOOK_SECRET, and any other secret a sender may sign with.
WEBHOOK_SECRET == "your-webhook-secret-change-in-production"
OtherSecret == "not-the-webhook-secret"

\* The JSON text of a webhook payload without its signature: how it is
\* written (key-sorted without whitespace, or any other way) and what it
\* says.
PayloadText(form, transaction_id, status, bank_reference, error_message) ==
    [form |-> form, transaction_id |-> transaction_id, status |-> status,
     bank_reference |-> bank_reference, error_message |-> error_message]
CANONICAL == "sorted keys, no whitespace"
PRETTY == "keys as sent, with whitespace"
BodyForms == {CANONICAL, PRETTY}

\* json.loads, pop('signature'), json.dumps(separators=(',', ':'),
\* sort_keys=True): the same content, written the canonical way.
canonical_payload(text) == [text EXCEPT !.form = CANONICAL]

\* generate_webhook_signature: HMAC-SHA256 of the text under the secret.
\* The digest stands for the pair it was computed from (no collisions).
hmac_sha256(secret, text) == [secret |-> secret, text |-> text]
generate_webhook_signature(text) == hmac_sha256(WEBHOOK_SECRET, text)
NoSignature == hmac_sha256("", PayloadText("", 0, "", NoRef, NoMsg))

\* A verification that compares the signature with the HMAC of the body
\* as it was sent.
verify_webhook_signature_raw(text, signature) ==
    generate_webhook_signature(text) = signature

\* verify_webhook_signature: compare_digest of the signature with the HMAC
\* of the canonical payload.
verify_webhook_signature(text, signature) ==
    generate_webhook_signature(canonical_payload(text)) = signature

\* The signatures a delivery may carry: the bank's, one computed under
\* another secret, and one computed over the body as it was sent.
Signatures(text) ==
    {generate_webhook_signature(canonical_payload(text)),
     hmac_sha256(OtherSecret, canonical_payload(text)),
     hmac_sha256(WEBHOOK_SECRET, text)}

\* A webhook delivery and its task: its position, the payload (the task's
\* arguments), and the form and signature of the request body while the
\* endpoint handles it.
Webhook(pc, transaction_id, status, bank_reference, error_message, form, signature) ==
    [pc |-> pc, transaction_id |-> transaction_id, status |-> status,
     bank_reference |-> bank_reference, error_message |-> error_message,
     form |-> form, signature |-> signature]
NewWebhook == Webhook("new", 0, "", NoRef, NoMsg, "", NoSignature)

\* The text of the body a delivery came with.
BodyOf(h) ==
    PayloadText(h.form, h.transaction_id, h.status, h.bank_reference, h.error_message)

\* What a webhook may carry for a transaction: its status and error
\* message; the reference is the bank's for that transaction.
WebhookPayloads ==
    {[status |-> "success", error_message |-> NoMsg],
     [status |-> "failed", error_message |-> Msg("Declined by bank", FALSE, 0, 0)]}
\* WebhookPayload.status is any string: the payloads above and one whose
\* status is neither of the two the bank documents.
AnyStatusPayloads ==
    WebhookPayloads \cup
    {[status |-> "pending", error_message |-> Msg("Awaiting settlement", FALSE, 0, 0)]}
WebhookRef(t) == Ref("BANK", t, 0)

NoLedger == [worker |-> 0, webhook |-> 0]

TypeOK ==
    /\ DOMAIN balance \subseteq AllUsers
    /\ DOMAIN transactions \subseteq TxIds
    /\ DOMAIN requests \subseteq RequestIds
    /\ DOMAIN jobs \subseteq JobIds
    /\ DOMAIN webhooks \subseteq WebhookIds
    /\ DOMAIN ledger = TxIds

\* The state before any request: the given users (the users table is
\* filled out of core), each with InitialBalance, no transaction and no
\* idempotency record; the given requests and webhook deliveries are still
\* to come.
Start(users, reqs, hooks) ==
    /\ balance = [u \in users |-> InitialBalance]
    /\ transactions = <<>>
    /\ idempotency_keys = {}
    /\ requests = [r \in reqs |-> NewRequest]
    /\ jobs = [t \in TxIds |-> NoJob]
    /\ webhooks = [w \in hooks |-> NewWebhook]
    /\ ledger = [t \in TxIds |-> NoLedger]

\* The two ways the tables get created: from the ORM models
\* (Base.metadata.create_all, as the tests do) or by the alembic migration
\* (the only schema creation outside the tests).
MODELS == "models"
MIGRATION == "migration"
Schemas == {MODELS, MIGRATION}

\* The columns of the idempotency_keys table under each schema: the
\* migration creates the table without user_id.
IdempotencyColumns(s) ==
    IF s = MODELS
    THEN {"id", "user_id", "key", "response_status", "response_body", "created_at"}
    ELSE {"id", "key", "response_status", "response_body", "created_at"}

\* A run of cleanup_idempotency_keys_task: when it ran, its hours argument
\* and the count it returned.
Purge(at, hours, deleted) == [at |-> at, hours |-> hours, deleted |-> deleted]
NoPurge == Purge(0, 0, 0)

\* An answer of list_transactions: the arguments, the ids of the rows
\* returned, in order, and the total.
NoFilter == "None"
Listing(user_id, type, status, limit, offset, items, total) ==
    [user_id |-> user_id, type |-> type, status |-> status,
     limit |-> limit, offset |-> offset, items |-> items, total |-> total]
NoListing == Listing(NoFilter, NoFilter, NoFilter, 0, 0, <<>>, 0)

\* The rate limiter before any check: the clock at 0, the key absent; the
\* cleanup task has not run.
LimiterIdle ==
    /\ now = 0
    /\ window = {}
    /\ rate_log = <<>>
    /\ purge_log = NoPurge
    /\ listing = NoListing
    /\ calls = <<>>

\* One user, two intake requests, one webhook delivery, on tables created
\* from the models.
Init ==
    /\ Start({"u1"}, RequestIds, {1})
    /\ schema = MODELS
    /\ LimiterIdle

\* ------------------------------------------------------------------ locks

InsufficientBalanceError == "InsufficientBalanceError"

\* A row locked by SELECT ... FOR UPDATE.
Row(table, id) == [table |-> table, id |-> id]

\* A task that keeps the transaction row locked after
\* update_transaction_status(PROCESSING), into its bank call.
HeldByJob_NoCommit(j) ==
    IF jobs[j].pc = "bank"
    THEN {Row("transactions", TransactionOf(j))}
    ELSE {}

\* The rows a settlement task holds locked between two of its steps.
\* update_transaction_status and update_user_balance lock a row and commit,
\* which releases it; only a refused debit raises before its commit and
\* leaves the user row locked until the commit of the except handler.
HeldByJob(j) ==
    IF jobs[j].pc = "except" /\ jobs[j].exc = InsufficientBalanceError
    THEN {Row("users", transactions[TransactionOf(j)].user_id)}
    ELSE {}

\* The rows an intake request holds locked between two of its steps:
\* create_withdrawal raises InsufficientBalanceError under the user's row
\* lock, which the commit of save_idempotency_key releases.
HeldByRequest(r) ==
    IF requests[r].pc = "save_error"
    THEN {Row("users", requests[r].user_id)}
    ELSE {}

\* The row is locked by a task or request other than the given one
\* (with_for_update then waits).
LockedByOther(kind, id, row) ==
    \/ \E j \in DOMAIN jobs : ~(kind = "job" /\ id = j) /\ row \in HeldByJob(j)
    \/ \E r \in DOMAIN requests :
           ~(kind = "request" /\ id = r) /\ row \in HeldByRequest(r)

\* ------------------------------------------------------------------ intake

\* response_model=DepositResponse / WithdrawalResponse: the value a handler
\* returns is validated against TransactionResponse before it is sent; a
\* dict without the transaction's fields fails the validation and the
\* request ends 500.
response_model(status_code, content) ==
    IF content.shape = "transaction"
    THEN [status_code |-> status_code, body |-> content]
    ELSE [status_code |-> HTTP_500_INTERNAL_SERVER_ERROR,
          body |-> FailureBody("internal_server_error")]

\* The request is answered: what stays of it is who sent it, with which
\* key, the transaction it created and the response.
Respond(q, status_code, body) ==
    Request("done", q.user_id, q.key, "", 0, q.tx, q.hit, status_code, body)

\* "Failed to create deposit transaction" / "... withdrawal transaction"
FailedToCreate(type) ==
    IF type = DEPOSIT
    THEN FailureBody("Failed to create deposit transaction")
    ELSE FailureBody("Failed to create withdrawal transaction")

\* A request without the Idempotency-Key header, and one with an empty
\* header.
NoHeader == "(no header)"
EmptyHeader == ""

\* A validation that lets a zero amount through.
ValidAmount_NonNegative(a) == a >= 0

\* TransactionBase.amount: Field(gt=0) and validate_amount.
ValidAmount(a) == a > 0

\* Header(..., alias="Idempotency-Key") and the check of
\* get_idempotency_key.
ValidKey(k) == k # NoHeader /\ k # EmptyHeader

\* The amounts a request that fails validation may carry.
InvalidAmounts == {-1, 0}

\* The keys a new request may carry: one an earlier request carried, or
\* the first key none has carried yet (which one that is makes no
\* difference: the code only compares keys for equality).
UsedKeys ==
    {requests[r].key : r \in {q \in DOMAIN requests : requests[q].pc # "new"}}
        \ {NoHeader, EmptyHeader}
RequestKeys == {Keys[i] : i \in {j \in DOMAIN Keys : j <= Cardinality(UsedKeys) + 1}}

\* create_deposit / create_withdrawal, up to the lookup: the request
\* arrives and check_idempotency_key runs; a stored record is returned
\* (what stays of such a request includes its input: the endpoint it came
\* to and the amount).
IntakeCheck(r) ==
    /\ requests[r].pc = "new"
    /\ \A earlier \in 1..(r - 1) : requests[earlier].pc # "new"
    /\ \E u \in DOMAIN balance, k \in RequestKeys, ty \in TransactionType,
          a \in Amounts \cup InvalidAmounts :
         LET existing_key == check_idempotency_key(idempotency_keys, u, k)
             cached == response_model(existing_key.response_status,
                                      existing_key.response_body)
             q == Request("new", u, k, ty, a, 0, FALSE, 0, NoBody)
         IN /\ ValidKey(k)
            /\ ValidAmount(a)
            /\ requests' = [requests EXCEPT ![r] =
                   IF "user_id" \notin IdempotencyColumns(schema)
                   THEN Respond(q, HTTP_500_INTERNAL_SERVER_ERROR,
                                FailureBody("database_error"))
                   ELSE IF existing_key # NoKey
                   THEN [Respond([q EXCEPT !.hit = TRUE],
                                 cached.status_code, cached.body)
                            EXCEPT !.type = ty, !.amount = a]
                   ELSE [q EXCEPT !.pc = "create"]]
    /\ UNCHANGED <<balance, transactions, idempotency_keys, jobs, webhooks, ledger, schema, limiter, purge_log, listing>>

\* A request that fails validation never reaches the endpoint's body: a
\* missing header or an amount that is not positive is answered 422 by the
\* framework, an empty header 400 by get_idempotency_key (dependencies are
\* resolved before the body's errors are reported).  What stays of the
\* request is its input and the answer.  One field of the input is
\* invalid; the other is a valid one, which plays no part.
IntakeInvalid(r) ==
    /\ requests[r].pc = "new"
    /\ \A earlier \in 1..(r - 1) : requests[earlier].pc # "new"
    /\ \E u \in DOMAIN balance, k \in {Keys[1], NoHeader, EmptyHeader},
          ty \in TransactionType, a \in {1} \cup InvalidAmounts :
         /\ ~(ValidKey(k) /\ ValidAmount(a))
         /\ ValidKey(k) \/ ValidAmount(a)
         /\ requests' = [requests EXCEPT ![r] =
                IF k = EmptyHeader
                THEN Request("done", u, k, ty, a, 0, FALSE, HTTP_400_BAD_REQUEST,
                             FailureBody("Idempotency-Key header is required"))
                ELSE Request("done", u, k, ty, a, 0, FALSE,
                             HTTP_422_UNPROCESSABLE_ENTITY,
                             FailureBody("validation_error"))]
    /\ UNCHANGED <<balance, transactions, idempotency_keys, jobs, webhooks, ledger,
                   schema, limiter, purge_log, listing>>

\* transaction_service.create_deposit / create_withdrawal and
\* process_*_task.delay(transaction.id): the pending row is committed and
\* its task queued, or the withdrawal's balance check raises.
IntakeCreate(r) ==
    LET q == requests[r]
        id == Len(transactions) + 1
        txs == create_transaction(transactions, q.user_id, q.type, q.amount, q.key)
    IN /\ q.pc = "create"
       /\ q.type = WITHDRAWAL => ~LockedByOther("request", r, Row("users", q.user_id))
       /\ IF q.type = WITHDRAWAL /\ InsufficientAtIntake(balance, q.user_id, q.amount)
          THEN /\ requests' = [requests EXCEPT ![r] =
                      [q EXCEPT !.pc = "save_error",
                                !.body = ErrorBody(InsufficientBalanceMsg(
                                             balance[q.user_id], q.amount))]]
               /\ UNCHANGED <<transactions, jobs>>
          ELSE /\ transactions' = txs
               /\ jobs' = [jobs EXCEPT ![id] = QueuedJob]
               /\ requests' = [requests EXCEPT ![r] =
                      [q EXCEPT !.pc = "save", !.tx = id,
                                !.body = TransactionBody(txs[id])]]
       /\ UNCHANGED <<balance, idempotency_keys, webhooks, ledger, schema, limiter, purge_log, listing>>

\* save_idempotency_key(202, response_dict) and the return; an
\* IntegrityError of the commit is caught by "except Exception" and
\* answered 500.
IntakeSave(r) ==
    LET q == requests[r]
    IN /\ q.pc = "save"
       /\ idempotency_keys' = save_idempotency_key(
              idempotency_keys, q.user_id, q.key, HTTP_202_ACCEPTED, q.body)
       /\ requests' = [requests EXCEPT ![r] =
              IF UniqueViolation(idempotency_keys, q.user_id, q.key)
              THEN Respond(q, HTTP_500_INTERNAL_SERVER_ERROR, FailedToCreate(q.type))
              ELSE Respond(q, HTTP_202_ACCEPTED, q.body)]
       /\ UNCHANGED <<balance, transactions, jobs, webhooks, ledger, schema, limiter, purge_log, listing>>

\* The InsufficientBalanceError handler of create_withdrawal:
\* save_idempotency_key(400, error_response), then HTTPException(400,
\* detail=error_response); an IntegrityError raised in the handler leaves
\* the endpoint and is answered 500 by ErrorHandlerMiddleware.
IntakeSaveError(r) ==
    LET q == requests[r]
    IN /\ q.pc = "save_error"
       /\ idempotency_keys' = save_idempotency_key(
              idempotency_keys, q.user_id, q.key, HTTP_400_BAD_REQUEST, q.body)
       /\ requests' = [requests EXCEPT ![r] =
              IF UniqueViolation(idempotency_keys, q.user_id, q.key)
              THEN Respond(q, HTTP_500_INTERNAL_SERVER_ERROR,
                           FailureBody("database_error"))
              ELSE Respond(q, HTTP_400_BAD_REQUEST, DetailBody(q.body.msg))]
       /\ UNCHANGED <<balance, transactions, jobs, webhooks, ledger, schema, limiter, purge_log, listing>>

\* ------------------------------------------------------- settlement worker

\* An outer handler written "except BankAPIError": a failure of the ledger
\* mutation leaves the task.
OuterHandlerCatches_BankErrorsOnly(exc) == exc # InsufficientBalanceError

\* An outer handler written for the retryable bank errors alone: any other
\* exception leaves the task where it was raised.
OuterHandlerCatches_RetryableOnly(exc) == exc \in AutoretryFor

\* The outer "except Exception" of a settlement task catches every
\* exception that leaves the inner try, the retryable ones re-raised by the
\* inner handler included.
OuterHandlerCatches(exc) == TRUE

\* The end of one run of a task.  Celery's autoretry wrapper sees only an
\* exception that leaves the task body: for one of autoretry_for it
\* schedules the task again, up to max_retries; otherwise the task is over.
TaskReturn(job, escaped) ==
    IF escaped \in AutoretryFor /\ job.retries < MaxRetries
    THEN Job("queued", job.retries + 1, job.bank, "", NoMsg)
    ELSE Job("done", job.retries, job.bank, escaped, NoMsg)

\* The reference the simulator returns to this run of the task.
BankReference(j) ==
    Ref(BankPrefix(transactions[TransactionOf(j)].type), TransactionOf(j),
        jobs[j].retries + (IF j <= FirstDeliveries THEN 0 ELSE MaxRetries + 1))

\* An "already processed" check that lets a failed transaction through.
AlreadyProcessed_SuccessOnly(status) == status = SUCCESS
\* The "already processed" check of the settlement tasks.
AlreadyProcessed(status) == status \in Terminal

\* get_transaction and the "already processed" check.
JobLoad(j) ==
    /\ jobs[j].pc = "queued"
    /\ jobs' = [jobs EXCEPT ![j] =
           IF AlreadyProcessed(transactions[TransactionOf(j)].status)
           THEN TaskReturn(@, "")
           ELSE [@ EXCEPT !.pc = "loaded", !.bank = ""]]
    /\ UNCHANGED <<balance, transactions, idempotency_keys, requests, webhooks, ledger, schema, limiter, purge_log, listing>>

\* update_transaction_status(PROCESSING); the bank call starts.
JobMarkProcessing(j) ==
    /\ jobs[j].pc = "loaded"
    /\ transactions' = update_transaction_status(transactions, TransactionOf(j), PROCESSING, NoRef, NoMsg)
    /\ jobs' = [jobs EXCEPT ![j].pc = "bank"]
    /\ UNCHANGED <<balance, idempotency_keys, requests, webhooks, ledger, schema, limiter, purge_log, listing>>

\* The bank call returns and the task commits its next write: for a
\* deposit the SUCCESS status, for a withdrawal the debit; on a retryable
\* error the PENDING status (the exception is then re-raised); on any other
\* bank error the FAILED status.
JobBank(j) ==
    LET tx == transactions[TransactionOf(j)]
        debit == update_user_balance(balance, tx.user_id, tx.amount, "subtract")
    IN /\ jobs[j].pc = "bank"
       /\ \E outcome \in BankOutcomes(tx.type) :
            IF outcome = BANK_OK
            THEN IF tx.type = DEPOSIT
                 THEN /\ transactions' = update_transaction_status(
                             transactions, TransactionOf(j), SUCCESS, BankReference(j), NoMsg)
                      /\ jobs' = [jobs EXCEPT ![j] = [@ EXCEPT !.pc = "credit", !.bank = outcome]]
                      /\ UNCHANGED <<balance, ledger>>
                 ELSE /\ ~LockedByOther("job", j, Row("users", tx.user_id))
                      /\ balance' = debit.balance
                      /\ ledger' = IF debit.raised THEN ledger
                                   ELSE [ledger EXCEPT ![TransactionOf(j)].worker = @ + 1]
                      /\ jobs' = [jobs EXCEPT ![j] =
                             IF debit.raised
                             THEN Job("except", @.retries, outcome, InsufficientBalanceError,
                                      InsufficientBalanceMsg(balance[tx.user_id], tx.amount))
                             ELSE [@ EXCEPT !.pc = "mark_success", !.bank = outcome]]
                      /\ UNCHANGED transactions
            ELSE IF outcome \in AutoretryFor
                 THEN /\ transactions' = update_transaction_status(
                             transactions, TransactionOf(j), PENDING, NoRef, BankMsg(outcome))
                      /\ jobs' = [jobs EXCEPT ![j] =
                             Job("except", @.retries, outcome, outcome, BankMsg(outcome))]
                      /\ UNCHANGED <<balance, ledger>>
                 ELSE /\ transactions' = update_transaction_status(
                             transactions, TransactionOf(j), FAILED, NoRef, BankMsg(outcome))
                      /\ jobs' = [jobs EXCEPT ![j] = TaskReturn([@ EXCEPT !.bank = outcome], "")]
                      /\ UNCHANGED <<balance, ledger>>
       /\ UNCHANGED <<idempotency_keys, requests, webhooks, schema, limiter, purge_log, listing>>

\* process_deposit_task after the SUCCESS write: update_user_balance("add").
JobCredit(j) ==
    LET tx == transactions[TransactionOf(j)]
    IN /\ jobs[j].pc = "credit"
       /\ ~LockedByOther("job", j, Row("users", tx.user_id))
       /\ balance' = update_user_balance(balance, tx.user_id, tx.amount, "add").balance
       /\ ledger' = [ledger EXCEPT ![TransactionOf(j)].worker = @ + 1]
       /\ jobs' = [jobs EXCEPT ![j] = TaskReturn(@, "")]
       /\ UNCHANGED <<transactions, idempotency_keys, requests, webhooks, schema, limiter, purge_log, listing>>

\* process_withdrawal_task after the debit: update_transaction_status(SUCCESS).
JobMarkSuccess(j) ==
    /\ jobs[j].pc = "mark_success"
    /\ transactions' = update_transaction_status(
           transactions, TransactionOf(j), SUCCESS, BankReference(j), NoMsg)
    /\ jobs' = [jobs EXCEPT ![j] = TaskReturn(@, "")]
    /\ UNCHANGED <<balance, idempotency_keys, requests, webhooks, ledger, schema, limiter, purge_log, listing>>

\* The outer handler: FAILED with "Internal error: ..."; the task then
\* returns normally.  An exception the handler did not catch would leave
\* the task.
JobExcept(j) ==
    /\ jobs[j].pc = "except"
    /\ IF OuterHandlerCatches(jobs[j].exc)
       THEN /\ transactions' = update_transaction_status(
                   transactions, TransactionOf(j), FAILED, NoRef, InternalError(jobs[j].error))
            /\ jobs' = [jobs EXCEPT ![j] = TaskReturn(@, "")]
       ELSE /\ jobs' = [jobs EXCEPT ![j] = TaskReturn(@, @.exc)]
            /\ UNCHANGED transactions
    /\ UNCHANGED <<balance, idempotency_keys, requests, webhooks, ledger, schema, limiter, purge_log, listing>>

\* One step of delivery j of a settlement task.
Settle(j) ==
    \/ JobLoad(j)
    \/ JobMarkProcessing(j)
    \/ JobBank(j)
    \/ JobCredit(j)
    \/ JobMarkSuccess(j)
    \/ JobExcept(j)

\* ------------------------------------------------------ webhook reconciler

\* bank_callback: a delivery arrives; verify_webhook_signature, then
\* process_webhook_task.delay(...) or 401.
Deliver(w, payloads) ==
    /\ webhooks[w].pc = "new"
    /\ \A earlier \in 1..(w - 1) : webhooks[earlier].pc # "new"
    /\ \E t \in DOMAIN transactions, p \in payloads, form \in BodyForms :
         \E signature \in Signatures(
                 PayloadText(form, t, p.status, WebhookRef(t), p.error_message)) :
           LET h == Webhook("new", t, p.status, WebhookRef(t), p.error_message,
                            form, signature)
           IN webhooks' = [webhooks EXCEPT ![w] =
                  IF verify_webhook_signature(BodyOf(h), signature)
                  THEN [h EXCEPT !.pc = "queued"]
                  ELSE [h EXCEPT !.pc = "rejected"]]
    /\ UNCHANGED <<balance, transactions, idempotency_keys, requests, jobs, ledger,
                   schema, limiter, purge_log, listing>>

bank_callback(w) == Deliver(w, WebhookPayloads)

\* A final-state check that lets a failed transaction through.
AlreadyFinal_SuccessOnly(status) == status = SUCCESS

\* The final-state check of process_webhook_task.
AlreadyFinal(status) == status \in Terminal

\* process_webhook_task starts: get_transaction and the final-state check;
\* a transaction already in a final state ends the task.
WebhookLoad(w) ==
    LET h == webhooks[w]
    IN /\ h.pc = "queued"
       /\ webhooks' = [webhooks EXCEPT ![w] =
              Webhook(IF AlreadyFinal(transactions[h.transaction_id].status)
                      THEN "ignored" ELSE "apply",
                      h.transaction_id, h.status, h.bank_reference, h.error_message,
                      "", NoSignature)]
    /\ UNCHANGED <<balance, transactions, idempotency_keys, requests, jobs, ledger, schema, limiter, purge_log, listing>>

\* A test of the webhook's status that takes all but "failed" for a success.
ReportsSuccess_NotFailed(status) == status # "failed"

\* if status == "success":
ReportsSuccess(status) == status = "success"

\* status == "success": update_user_balance for the transaction's kind (an
\* InsufficientBalanceError is logged and re-raised: the task fails);
\* any other status: update_transaction_status(FAILED).
WebhookApply(w) ==
    LET h == webhooks[w]
        tx == transactions[h.transaction_id]
        res == update_user_balance(balance, tx.user_id, tx.amount,
                   IF tx.type = DEPOSIT THEN "add" ELSE "subtract")
    IN /\ h.pc = "apply"
       /\ IF ReportsSuccess(h.status)
          THEN /\ ~LockedByOther("webhook", w, Row("users", tx.user_id))
               /\ balance' = res.balance
               /\ ledger' = IF res.raised THEN ledger
                            ELSE [ledger EXCEPT ![h.transaction_id].webhook = @ + 1]
               /\ webhooks' = [webhooks EXCEPT ![w].pc =
                      IF res.raised THEN "raised" ELSE "mark"]
               /\ UNCHANGED transactions
          ELSE /\ transactions' = update_transaction_status(
                      transactions, h.transaction_id, FAILED,
                      h.bank_reference, h.error_message)
               /\ webhooks' = [webhooks EXCEPT ![w].pc = "done"]
               /\ UNCHANGED <<balance, ledger>>
       /\ UNCHANGED <<idempotency_keys, requests, jobs, schema, limiter, purge_log, listing>>

\* After the ledger mutation: update_transaction_status(SUCCESS).
WebhookMark(w) ==
    LET h == webhooks[w]
    IN /\ h.pc = "mark"
       /\ transactions' = update_transaction_status(
              transactions, h.transaction_id, SUCCESS,
              h.bank_reference, h.error_message)
       /\ webhooks' = [webhooks EXCEPT ![w].pc = "done"]
       /\ UNCHANGED <<balance, idempotency_keys, requests, jobs, ledger, schema, limiter, purge_log, listing>>

\* ---------------------------------------------------------- specifications

Next ==
    \/ \E r \in DOMAIN requests : IntakeInvalid(r)
    \/ \E r \in DOMAIN requests : IntakeCheck(r)
    \/ \E r \in DOMAIN requests : IntakeCreate(r)
    \/ \E r \in DOMAIN requests : IntakeSave(r)
    \/ \E r \in DOMAIN requests : IntakeSaveError(r)
    \/ \E t \in DOMAIN transactions : JobLoad(t)
    \/ \E t \in DOMAIN transactions : JobMarkProcessing(t)
    \/ \E t \in DOMAIN transactions : JobBank(t)
    \/ \E t \in DOMAIN transactions : JobCredit(t)
    \/ \E t \in DOMAIN transactions : JobMarkSuccess(t)
    \/ \E t \in DOMAIN transactions : JobExcept(t)
    \/ \E w \in DOMAIN webhooks : bank_callback(w)
    \/ \E w \in DOMAIN webhooks : WebhookLoad(w)
    \/ \E w \in DOMAIN webhooks : WebhookApply(w)
    \/ \E w \in DOMAIN webhooks : WebhookMark(w)

Spec == Init /\ [][Next]_vars

\* The settlement tasks and the webhook tasks are run by Celery workers: a
\* queued task is eventually started and a started task runs on (every bank
\* call returns).
Fairness == \A t \in TxIds : WF_vars(t \in DOMAIN transactions /\ Settle(t))

\* Two requests and no webhook delivery, or one request and one delivery.
FairInit ==
    /\ \/ Start({"u1"}, RequestIds, {})
       \/ Start({"u1"}, {1}, {1})
    /\ schema = MODELS
    /\ LimiterIdle

FairSpec == FairInit /\ [][Next]_vars /\ Fairness

\* ------------------------------------------------------------ rate limiter

\* zremrangebyscore(key, 0, window_start): the scores removed.
Evicted_Strict(score, window_start) == 0 <= score /\ score < window_start
Evicted(score, window_start) == 0 <= score /\ score <= window_start

\* A check that counts the key's entries before the eviction.
check_rate_limit_count_first(win, t, limit, window_seconds) ==
    LET window_start == t - window_seconds
        kept == {score \in win : ~Evicted(score, window_start)}
        current_count == Cardinality(win)
    IN [window |-> kept \cup {t},
        result |-> [at |-> t,
                    current_count |-> current_count,
                    is_allowed |-> current_count < limit,
                    remaining |-> IF limit - current_count - 1 > 0
                                  THEN limit - current_count - 1 ELSE 0,
                    reset_timestamp |-> t + window_seconds,
                    retry_after |-> IF current_count >= limit
                                    THEN window_seconds ELSE 0]]

\* A check that records the timestamps of allowed requests only.
check_rate_limit_allowed_only(win, t, limit, window_seconds) ==
    LET window_start == t - window_seconds
        kept == {score \in win : ~Evicted(score, window_start)}
        current_count == Cardinality(kept)
    IN [window |-> IF current_count < limit THEN kept \cup {t} ELSE kept,
        result |-> [at |-> t,
                    current_count |-> current_count,
                    is_allowed |-> current_count < limit,
                    remaining |-> IF limit - current_count - 1 > 0
                                  THEN limit - current_count - 1 ELSE 0,
                    reset_timestamp |-> t + window_seconds,
                    retry_after |-> IF current_count >= limit
                                    THEN window_seconds ELSE 0]]

\* RateLimiter.check_rate_limit at time t on a key holding the sorted set
\* win: the set after the pipeline (eviction, count, zadd of the request
\* under the member str(now), whether or not it is allowed) and the tuple
\* returned.  The pipeline is one MULTI/EXEC transaction.
check_rate_limit(win, t, limit, window_seconds) ==
    LET window_start == t - window_seconds
        kept == {score \in win : ~Evicted(score, window_start)}
        current_count == Cardinality(kept)
    IN [window |-> kept \cup {t},
        result |-> [at |-> t,
                    current_count |-> current_count,
                    is_allowed |-> current_count < limit,
                    remaining |-> IF limit - current_count - 1 > 0
                                  THEN limit - current_count - 1 ELSE 0,
                    reset_timestamp |-> t + window_seconds,
                    retry_after |-> IF current_count >= limit
                                    THEN window_seconds ELSE 0]]

\* The time of the key's last check.
LastCheck == IF rate_log = <<>> THEN 0 ELSE rate_log[Len(rate_log)].at

\* The clock moves on, by at most one tick more than a window since the
\* last check.
Tick ==
    /\ Len(rate_log) < MaxChecks
    /\ \E d \in 1..(WindowSeconds + 1) :
         /\ now + d <= LastCheck + WindowSeconds + 1
         /\ now' = now + d
    /\ UNCHANGED <<window, rate_log, schema, payments, purge_log, listing, calls>>

\* A request is checked against the key (RateLimitMiddleware.dispatch,
\* check_user_rate_limit): now = time.time(), then the pipeline.  Two
\* requests can read the same clock value.
CheckRateLimit ==
    LET res == check_rate_limit(window, now, Limit, WindowSeconds)
    IN /\ Len(rate_log) < MaxChecks
       /\ window' = res.window
       /\ rate_log' = Append(rate_log, res.result)
       /\ UNCHANGED <<now, schema, payments, purge_log, listing, calls>>

\* expire(key, window_seconds): Redis drops the key once window_seconds
\* have passed since the last check.
KeyExpires ==
    /\ window # {}
    /\ now >= LastCheck + WindowSeconds
    /\ window' = {}
    /\ UNCHANGED <<now, rate_log, schema, payments, purge_log, listing, calls>>

RateNext ==
    \/ Tick
    \/ CheckRateLimit
    \/ KeyExpires

\* The rate limiter of one key, apart from the payment flow.
RateInit ==
    /\ Start({}, {}, {})
    /\ schema = MODELS
    /\ LimiterIdle

RateSpec == RateInit /\ [][RateNext]_vars

\* ------------------------------------------------------ concurrent checks

\* Checks of one key made by concurrent requests: each reads the clock
\* (now = time.time()) and later sends its pipeline, which Redis runs as one
\* MULTI/EXEC transaction.
CallIds == 1..(Limit + 1)
Call(pc, at, executed) == [pc |-> pc, at |-> at, executed |-> executed]
NewCall == Call("new", 0, 0)

\* now = time.time(); window_start = now - window_seconds.
ReadClock(c) ==
    /\ calls[c].pc = "new"
    /\ calls' = [calls EXCEPT ![c] = Call("read", now, 0)]
    /\ UNCHANGED <<now, window, rate_log, schema, payments, purge_log, listing>>

\* pipe.execute(): the four commands run against the key as it is when the
\* pipeline arrives, with the scores computed from the clock value the
\* call read before.
ExecutePipeline(c) ==
    LET res == check_rate_limit(window, calls[c].at, Limit, WindowSeconds)
    IN /\ calls[c].pc = "read"
       /\ window' = res.window
       /\ rate_log' = Append(rate_log, res.result)
       /\ calls' = [calls EXCEPT ![c] = Call("done", calls[c].at, now)]
       /\ UNCHANGED <<now, schema, payments, purge_log, listing>>

\* The time the key's last pipeline ran.
LastExecuted ==
    IF \A c \in DOMAIN calls : calls[c].pc # "done" THEN 0
    ELSE CHOOSE t \in {calls[c].executed : c \in DOMAIN calls} :
             \A c \in DOMAIN calls : calls[c].executed <= t

\* The clock moves on by a tick, while calls are still to come and up to
\* the time the key expires.
PipelineTick ==
    /\ \E c \in DOMAIN calls : calls[c].pc # "done"
    /\ now < LastExecuted + WindowSeconds
    /\ now' = now + 1
    /\ UNCHANGED <<window, rate_log, schema, payments, purge_log, listing, calls>>

\* expire(key, window_seconds), counted from the last pipeline.
PipelineKeyExpires ==
    /\ window # {}
    /\ now >= LastExecuted + WindowSeconds
    /\ window' = {}
    /\ UNCHANGED <<now, rate_log, schema, payments, purge_log, listing, calls>>

PipelineNext ==
    \/ \E c \in DOMAIN calls : ReadClock(c)
    \/ \E c \in DOMAIN calls : ExecutePipeline(c)
    \/ PipelineTick
    \/ PipelineKeyExpires

PipelineInit ==
    /\ Start({}, {}, {})
    /\ schema = MODELS
    /\ now = 0
    /\ window = {}
    /\ rate_log = <<>>
    /\ purge_log = NoPurge
    /\ listing = NoListing
    /\ calls = [c \in CallIds |-> NewCall]

PipelineSpec == PipelineInit /\ [][PipelineNext]_vars

\* ------------------------------------------------- idempotency-key cleanup

\* The hours arguments the cleanup task is run with, in clock ticks.
Retentions == 1..2

\* A cleanup that also deletes a record created exactly at the cutoff.
cleanup_old_idempotency_keys_inclusive(rows, t, hours) ==
    LET old == {k \in rows : k.created_at <= t - hours}
    IN [rows |-> rows \ old, deleted |-> Cardinality(old)]

\* cleanup_old_idempotency_keys at time t: the table after the delete and
\* the count returned.
cleanup_old_idempotency_keys(rows, t, hours) ==
    LET cutoff == t - hours
        old == {k \in rows : k.created_at < cutoff}
    IN [rows |-> rows \ old, deleted |-> Cardinality(old)]

\* cleanup_idempotency_keys_task(hours).
cleanup_idempotency_keys_task ==
    \E hours \in Retentions :
        LET res == cleanup_old_idempotency_keys(idempotency_keys, now, hours)
        IN /\ idempotency_keys' = res.rows
           /\ purge_log' = Purge(now, hours, res.deleted)
           /\ UNCHANGED <<balance, transactions, requests, jobs, webhooks, ledger,
                          schema, limiter, listing>>

\* Intake, the clock and the cleanup task (no settlement).
PurgeNext ==
    \/ \E r \in DOMAIN requests : IntakeCheck(r)
    \/ \E r \in DOMAIN requests : IntakeCreate(r)
    \/ \E r \in DOMAIN requests : IntakeSave(r)
    \/ \E r \in DOMAIN requests : IntakeSaveError(r)
    \/ Tick
    \/ cleanup_idempotency_keys_task

PurgeInit ==
    /\ Start({"u1"}, RequestIds, {})
    /\ schema = MODELS
    /\ LimiterIdle

PurgeSpec == PurgeInit /\ [][PurgeNext]_vars

\* ---------------------------------------------------------- broker outage

\* create_deposit / create_withdrawal commit the transaction, then
\* process_*_task.delay(transaction.id) raises (the broker cannot be
\* reached): "except Exception" answers 500; no job is queued and no
\* idempotency record is saved.
IntakeEnqueueFails(r) ==
    LET q == requests[r]
        id == Len(transactions) + 1
    IN /\ q.pc = "create"
       /\ q.type = WITHDRAWAL => ~LockedByOther("request", r, Row("users", q.user_id))
       /\ ~(q.type = WITHDRAWAL /\ InsufficientAtIntake(balance, q.user_id, q.amount))
       /\ transactions' = create_transaction(transactions, q.user_id, q.type, q.amount, q.key)
       /\ requests' = [requests EXCEPT ![r] =
              Respond([q EXCEPT !.tx = id], HTTP_500_INTERNAL_SERVER_ERROR,
                      FailedToCreate(q.type))]
       /\ UNCHANGED <<balance, idempotency_keys, jobs, webhooks, ledger, schema,
                      limiter, purge_log, listing>>

\* Intake alone, with a broker that may fail.
OutageNext ==
    \/ \E r \in DOMAIN requests : IntakeCheck(r)
    \/ \E r \in DOMAIN requests : IntakeCreate(r)
    \/ \E r \in DOMAIN requests : IntakeEnqueueFails(r)
    \/ \E r \in DOMAIN requests : IntakeSave(r)
    \/ \E r \in DOMAIN requests : IntakeSaveError(r)

OutageInit ==
    /\ Start({"u1"}, RequestIds, {})
    /\ schema = MODELS
    /\ LimiterIdle

OutageSpec == OutageInit /\ [][OutageNext]_vars

\* ------------------------------------------------------------ redelivery

\* The message of transaction t's settlement task is delivered a second
\* time while the task of the first delivery has started and not returned.
Redeliver(t) ==
    /\ jobs[t].pc \notin {"none", "queued", "done"}
    /\ jobs[Redelivery(t)].pc = "none"
    /\ jobs' = [jobs EXCEPT ![Redelivery(t)] =
           Job("queued", jobs[t].retries, "", "", NoMsg)]
    /\ UNCHANGED <<balance, transactions, idempotency_keys, requests, webhooks,
                   ledger, schema, limiter, purge_log, listing>>

\* One request, its settlement task and a second delivery of it.
RedeliveryNext ==
    \/ \E r \in DOMAIN requests : IntakeCheck(r)
    \/ \E r \in DOMAIN requests : IntakeCreate(r)
    \/ \E r \in DOMAIN requests : IntakeSave(r)
    \/ \E j \in JobIds : TransactionOf(j) \in DOMAIN transactions /\ JobLoad(j)
    \/ \E j \in JobIds : TransactionOf(j) \in DOMAIN transactions /\ JobMarkProcessing(j)
    \/ \E j \in JobIds : TransactionOf(j) \in DOMAIN transactions /\ JobBank(j)
    \/ \E j \in JobIds : TransactionOf(j) \in DOMAIN transactions /\ JobCredit(j)
    \/ \E j \in JobIds : TransactionOf(j) \in DOMAIN transactions /\ JobMarkSuccess(j)
    \/ \E j \in JobIds : TransactionOf(j) \in DOMAIN transactions /\ JobExcept(j)
    \/ \E t \in DOMAIN transactions : Redeliver(t)

RedeliveryInit ==
    /\ balance = [u \in {"u1"} |-> InitialBalance]
    /\ transactions = <<>>
    /\ idempotency_keys = {}
    /\ requests = [r \in {1} |-> NewRequest]
    /\ jobs = [j \in JobIds |-> NoJob]
    /\ webhooks = <<>>
    /\ ledger = [t \in TxIds |-> NoLedger]
    /\ schema = MODELS
    /\ LimiterIdle

RedeliverySpec == RedeliveryInit /\ [][RedeliveryNext]_vars

\* --------------------------------------------------------------- listing

\* The arguments of the listing requests: each filter absent or given,
\* PaginationParams.limit (ge=1) and .offset (ge=0).
UserFilters == {NoFilter, "u1"}
TypeFilters == {NoFilter, DEPOSIT}
StatusFilters == {NoFilter, FAILED}
PageLimits == 1..2
Offsets == 0..1

\* The tables listed: up to three transactions of either user, of either
\* kind, pending or failed by the bank, created at these times in id order.
ListIds == 1..3
ListTimes == 0..1
ListRows ==
    [user_id : AllUsers, type : {DEPOSIT, WITHDRAWAL}, status : {PENDING, FAILED},
     created_at : ListTimes]

\* The filters of the query: each is applied only when given.
Matches(row, user_id, type, status) ==
    /\ user_id # NoFilter => row.user_id = user_id
    /\ type # NoFilter => row.type = type
    /\ status # NoFilter => row.status = status

\* order_by(created_at.desc()): every order of the ids that puts no row
\* before a more recent one (rows of equal created_at come in any order).
Orderings(rows, ids) ==
    {o \in [1..Cardinality(ids) -> ids] :
        /\ \A i, j \in DOMAIN o : i # j => o[i] # o[j]
        /\ \A i, j \in DOMAIN o :
               i < j => rows[o[i]].created_at >= rows[o[j]].created_at}

\* A listing that orders oldest first.
list_transactions_oldest_first(rows, user_id, type, status, limit, offset) ==
    LET matching == {i \in DOMAIN rows : Matches(rows[i], user_id, type, status)}
        total == Cardinality(matching)
        last == IF offset + limit < total THEN offset + limit ELSE total
        asc == {o \in [1..total -> matching] :
                   /\ \A i, j \in DOMAIN o : i # j => o[i] # o[j]
                   /\ \A i, j \in DOMAIN o :
                          i < j => rows[o[i]].created_at <= rows[o[j]].created_at}
    IN {[items |-> SubSeq(o, offset + 1, last), total |-> total] : o \in asc}

\* list_transactions: the answers the query can give (the page and the
\* total).
list_transactions(rows, user_id, type, status, limit, offset) ==
    LET matching == {i \in DOMAIN rows : Matches(rows[i], user_id, type, status)}
        total == Cardinality(matching)
        last == IF offset + limit < total THEN offset + limit ELSE total
    IN {[items |-> SubSeq(o, offset + 1, last), total |-> total] :
            o \in Orderings(rows, matching)}

\* One listing request (list_deposits, list_withdrawals or
\* get_user_transactions calling list_transactions).
ListTransactions ==
    /\ listing = NoListing
    /\ \E user_id \in UserFilters, type \in TypeFilters, status \in StatusFilters,
          limit \in PageLimits, offset \in Offsets :
          \E res \in list_transactions(transactions, user_id, type, status,
                                         limit, offset) :
              listing' = Listing(user_id, type, status, limit, offset,
                                 res.items, res.total)
    /\ UNCHANGED <<payments, schema, limiter, purge_log>>

ListNext == ListTransactions

\* The tables before the listing request.
ListInit ==
    /\ LimiterIdle
    /\ \E n \in {0} \cup ListIds :
          \E f \in [1..n -> ListRows] :
              /\ \A i, j \in 1..n : i < j => f[i].created_at <= f[j].created_at
              /\ transactions =
                     [i \in 1..n |->
                         [TransactionRow(i, f[i].user_id, f[i].type, f[i].status, 1, "k1")
                             EXCEPT !.created_at = f[i].created_at,
                                    !.error_message =
                                        IF f[i].status = FAILED
                                        THEN BankMsg(BankAPIError) ELSE NoMsg]]
    /\ balance = [u \in AllUsers |-> InitialBalance]
    /\ idempotency_keys = {}
    /\ requests = <<>>
    /\ jobs = [t \in TxIds |-> NoJob]
    /\ webhooks = <<>>
    /\ ledger = [t \in TxIds |-> NoLedger]
    /\ schema = MODELS

ListSpec == ListInit /\ [][ListNext]_vars

\* -------------------------------------------------- webhooks and schemas

\* One request and two webhook deliveries.
HookInit ==
    /\ Start({"u1"}, {1}, WebhookIds)
    /\ schema = MODELS
    /\ LimiterIdle

HookSpec == HookInit /\ [][Next]_vars

\* Two users, on tables created either way: two requests, or one request
\* and one webhook delivery.
SchemaInit ==
    /\ \/ Start(AllUsers, RequestIds, {})
       \/ Start({"u1"}, {1}, {1})
    /\ schema \in Schemas
    /\ LimiterIdle

SchemaSpec == SchemaInit /\ [][Next]_vars

\* One request and one webhook delivery whose status is any string.
AnyStatusNext ==
    \/ \E r \in DOMAIN requests : IntakeInvalid(r)
    \/ \E r \in DOMAIN requests : IntakeCheck(r)
    \/ \E r \in DOMAIN requests : IntakeCreate(r)
    \/ \E r \in DOMAIN requests : IntakeSave(r)
    \/ \E r \in DOMAIN requests : IntakeSaveError(r)
    \/ \E t \in DOMAIN transactions : JobLoad(t)
    \/ \E t \in DOMAIN transactions : JobMarkProcessing(t)
    \/ \E t \in DOMAIN transactions : JobBank(t)
    \/ \E t \in DOMAIN transactions : JobCredit(t)
    \/ \E t \in DOMAIN transactions : JobMarkSuccess(t)
    \/ \E t \in DOMAIN transactions : JobExcept(t)
    \/ \E w \in DOMAIN webhooks : Deliver(w, AnyStatusPayloads)
    \/ \E w \in DOMAIN webhooks : WebhookLoad(w)
    \/ \E w \in DOMAIN webhooks : WebhookApply(w)
    \/ \E w \in DOMAIN webhooks : WebhookMark(w)

AnyStatusInit ==
    /\ Start({"u1"}, {1}, {1})
    /\ schema = MODELS
    /\ LimiterIdle

AnyStatusSpec == AnyStatusInit /\ [][AnyStatusNext]_vars

\* ------------------------------------------------------------------ claims

\* The transaction's status is success or failed.
IsTerminal(t) == t \in DOMAIN transactions /\ transactions[t].status \in Terminal

\* Intake answered 202 for transaction t (the request that created it).
Accepted(t) ==
    \E r \in DOMAIN requests :
        /\ requests[r].pc = "done"
        /\ requests[r].tx = t
        /\ requests[r].status_code = HTTP_202_ACCEPTED

\* No webhook task has been queued for transaction t.
NoWebhookFor(t) ==
    \A w \in DOMAIN webhooks :
        webhooks[w].transaction_id # t \/ webhooks[w].pc = "rejected"

\* C1: in every reachable state, under any interleaving of intake requests,
\* settlement jobs and webhook tasks, every user's balance is >= 0.
C1_BalanceNeverNegative == \A u \in DOMAIN balance : balance[u] >= 0

\* A settlement job's debit was refused: the balance was below the amount
\* of a withdrawal that intake had accepted.
C1_Witness_DebitRefused ==
    \E t \in DOMAIN transactions :
        /\ jobs[t].pc = "except"
        /\ jobs[t].exc = InsufficientBalanceError
        /\ balance[transactions[t].user_id] < transactions[t].amount

\* C2: the ledger mutation of a transaction is applied at most once in
\* total, by the worker or by a webhook task, never by both.
C2_LedgerAppliedAtMostOnce ==
    \A t \in TxIds : ledger[t].worker + ledger[t].webhook <= 1

\* C3: once a transaction is success or failed, no step changes its
\* status, bank reference or error message.
C3_TerminalNeverChanges ==
    [][\A t \in DOMAIN transactions :
          transactions[t].status \in Terminal => transactions'[t] = transactions[t]]_vars

\* C4: a request whose (user, key) pair has a stored record returns the
\* stored status code and body unchanged and creates no transaction (so
\* queues no job).
C4_ReplayReturnsStored ==
    \A r \in DOMAIN requests :
        (requests[r].pc = "done" /\ requests[r].hit) =>
            LET stored == check_idempotency_key(
                              idempotency_keys, requests[r].user_id, requests[r].key)
            IN /\ requests[r].status_code = stored.response_status
               /\ requests[r].body = stored.response_body
               /\ requests[r].tx = 0

\* The transactions created for a (user, key) pair.
CreatedFor(user_id, key) ==
    {t \in DOMAIN transactions :
        transactions[t].user_id = user_id /\ transactions[t].idempotency_key = key}

\* C5: when two requests with the same (user, key) pair both find no record
\* (and neither is rejected for its balance), exactly one transaction is
\* created and one job queued, and both return the stored response: the
\* one that hits the uniqueness conflict does not return an error.
C5_ConcurrentSameKeyCreatesOne ==
    \A r1, r2 \in DOMAIN requests :
        LET a == requests[r1]
            b == requests[r2]
            stored == check_idempotency_key(idempotency_keys, a.user_id, a.key)
        IN (/\ r1 # r2
            /\ a.pc = "done" /\ b.pc = "done"
            /\ a.user_id = b.user_id /\ a.key = b.key
            /\ ~a.hit /\ ~b.hit
            /\ a.tx # 0 /\ b.tx # 0) =>
               /\ Cardinality(CreatedFor(a.user_id, a.key)) = 1
               /\ Cardinality({t \in CreatedFor(a.user_id, a.key) : jobs[t].pc # "none"}) = 1
               /\ a.status_code = stored.response_status /\ a.body = stored.response_body
               /\ b.status_code = stored.response_status /\ b.body = stored.response_body

\* C6: when a job's bank call fails with a retryable error below the retry
\* ceiling, that run ends with the transaction pending, the bank's message
\* recorded and the job scheduled again (no webhook involved).
C6_TransientErrorRequeues ==
    \A t \in DOMAIN transactions :
        (/\ jobs[t].bank \in AutoretryFor
         /\ NoWebhookFor(t)
         /\ \/ jobs[t].pc = "queued"
            \/ jobs[t].pc = "done" /\ jobs[t].retries < MaxRetries) =>
            /\ jobs[t].pc = "queued"
            /\ transactions[t].status = PENDING
            /\ transactions[t].error_message = BankMsg(jobs[t].bank)

\* The message of a transaction given up after its last retry.
RetriesExhaustedMsg == Msg("Retries exhausted", FALSE, 0, 0)

\* C7: a job is retried at most MaxRetries times, and a job that gives up on
\* a retryable bank error has used all its retries and leaves the
\* transaction failed with the retries-exhausted message (no webhook
\* involved).
C7_RetriesExhaustedAtCeiling ==
    \A t \in DOMAIN transactions :
        /\ jobs[t].retries <= MaxRetries
        /\ (jobs[t].pc = "done" /\ jobs[t].bank \in AutoretryFor /\ NoWebhookFor(t)) =>
              /\ jobs[t].retries = MaxRetries
              /\ transactions[t].status = FAILED
              /\ transactions[t].error_message = RetriesExhaustedMsg

\* C8: when a settlement job is over, whatever the bank answered and
\* whether or not the ledger mutation failed, its transaction is success or
\* failed; when a run ends with a retry scheduled, it is not processing.
C8_JobNeverLeavesProcessing ==
    \A t \in DOMAIN transactions :
        /\ jobs[t].pc = "done" => transactions[t].status \in Terminal
        /\ (jobs[t].pc = "queued" /\ jobs[t].retries > 0) =>
               transactions[t].status # PROCESSING

\* A job is over whose debit failed after a successful bank call: the
\* transaction is failed with the internal-error message.
C8_Witness_LedgerFailure ==
    \E t \in DOMAIN transactions :
        /\ jobs[t].pc = "done"
        /\ jobs[t].bank = BANK_OK
        /\ transactions[t].status = FAILED
        /\ transactions[t].error_message.internal
        /\ transactions[t].error_message.text = "Insufficient balance"

\* C9: every transaction intake accepted eventually is success or failed.
C9_AcceptedEventuallyTerminal ==
    \A t \in TxIds : Accepted(t) ~> IsTerminal(t)

\* An accepted transaction whose bank call failed with a retryable error
\* has reached failed.
C9_Witness_TerminalAfterTransient ==
    \E t \in DOMAIN transactions :
        /\ Accepted(t)
        /\ jobs[t].pc = "done"
        /\ jobs[t].bank \in AutoretryFor
        /\ transactions[t].status = FAILED

\* No deposit of the user has been credited.
NoCredit(u) ==
    \A d \in DOMAIN transactions :
        (transactions[d].user_id = u /\ transactions[d].type = DEPOSIT) =>
            ledger[d] = NoLedger

\* Two withdrawals of one user that each fit the initial balance and
\* together exceed it, with no credit to the user.
Competing(t1, t2) ==
    /\ t1 # t2
    /\ transactions[t1].type = WITHDRAWAL /\ transactions[t2].type = WITHDRAWAL
    /\ transactions[t1].user_id = transactions[t2].user_id
    /\ transactions[t1].amount <= InitialBalance
    /\ transactions[t2].amount <= InitialBalance
    /\ transactions[t1].amount + transactions[t2].amount > InitialBalance
    /\ NoCredit(transactions[t1].user_id)

\* C10: of two such withdrawals at most one is success, once both jobs are
\* over one of them is failed, and the balance is never below 0.
C10_ConcurrentWithdrawals ==
    \A t1, t2 \in DOMAIN transactions :
        Competing(t1, t2) =>
            /\ ~(transactions[t1].status = SUCCESS /\ transactions[t2].status = SUCCESS)
            /\ (jobs[t1].pc = "done" /\ jobs[t2].pc = "done") =>
                   (transactions[t1].status = FAILED \/ transactions[t2].status = FAILED)
            /\ balance[transactions[t1].user_id] >= 0

\* Both jobs are over: one withdrawal debited the balance and is success,
\* the other was refused at the debit and is failed.
C10_Witness_OneSucceeds ==
    \E t1, t2 \in DOMAIN transactions :
        /\ Competing(t1, t2)
        /\ jobs[t1].pc = "done" /\ jobs[t2].pc = "done"
        /\ transactions[t1].status = SUCCESS
        /\ ledger[t1].worker = 1
        /\ transactions[t2].status = FAILED
        /\ transactions[t2].error_message.text = "Insufficient balance"

\* The webhook task of delivery w is over.
WebhookOver(w) == webhooks[w].pc \in {"done", "ignored", "raised"}

\* Deliveries w1 and w2 are the same success webhook, both accepted by the
\* endpoint.
SameSuccessWebhook(w1, w2) ==
    /\ w1 # w2
    /\ webhooks[w1].pc \notin {"new", "rejected"}
    /\ webhooks[w2].pc \notin {"new", "rejected"}
    /\ webhooks[w1].transaction_id = webhooks[w2].transaction_id
    /\ webhooks[w1].status = "success"
    /\ webhooks[w2].status = "success"

\* C11: two deliveries of the same success webhook never apply the ledger
\* mutation of their transaction twice, however their tasks interleave, and
\* when both tasks are over and the settlement job has not started, a
\* deposit has been credited exactly once.
C11_DuplicateWebhookAppliesOnce ==
    \A w1, w2 \in DOMAIN webhooks :
        SameSuccessWebhook(w1, w2) =>
            LET t == webhooks[w1].transaction_id
            IN /\ ledger[t].webhook <= 1
               /\ (/\ WebhookOver(w1) /\ WebhookOver(w2)
                   /\ jobs[t] = QueuedJob
                   /\ transactions[t].type = DEPOSIT) => ledger[t].webhook = 1

\* Request r was refused by create_withdrawal's balance check and is
\* answered.
Rejected(r) ==
    /\ requests[r].pc = "done"
    /\ ~requests[r].hit
    /\ requests[r].tx = 0
    /\ ValidKey(requests[r].key)
    /\ requests[r].type = ""

\* No other request with the pair of request r went past the lookup
\* without finding a record.
Alone(r) ==
    \A o \in DOMAIN requests :
        (/\ o # r
         /\ requests[o].pc # "new"
         /\ requests[o].user_id = requests[r].user_id
         /\ requests[o].key = requests[r].key) => requests[o].hit

\* C12: a withdrawal whose amount exceeds the balance creates no
\* transaction and is answered 400 with the insufficient-balance error, and
\* a later request with the same (user, key) pair is answered with the same
\* status code and the same body as that first answer.
C12_InsufficientRejectionReplays ==
    \A r \in DOMAIN requests :
        /\ requests[r].pc = "save_error" =>
               (requests[r].type = WITHDRAWAL /\ requests[r].tx = 0)
        /\ (Rejected(r) /\ Alone(r)) =>
               /\ requests[r].status_code = HTTP_400_BAD_REQUEST
               /\ requests[r].body.text = "insufficient_balance"
               /\ \A o \in DOMAIN requests :
                      (/\ requests[o].pc = "done"
                       /\ requests[o].hit
                       /\ requests[o].user_id = requests[r].user_id
                       /\ requests[o].key = requests[r].key) =>
                          /\ requests[o].status_code = requests[r].status_code
                          /\ requests[o].body = requests[r].body

\* The pending row intake creates for request q under the id t.
PendingRow(q, t) ==
    TransactionRow(t, q.user_id, q.type, PENDING, q.amount, q.key)

\* C13: a valid request whose (user, key) pair has no stored record (a
\* withdrawal within the balance) leaves exactly one transaction for the
\* pair, created pending with the request's amount, kind and user, is
\* answered 202 with that transaction, and its record is stored.
C13_FreshIntakeAccepted ==
    \A r \in DOMAIN requests :
        LET q == requests[r]
        IN /\ q.pc = "save" =>
                  /\ q.tx \in DOMAIN transactions
                  /\ q.body = TransactionBody(PendingRow(q, q.tx))
                  /\ transactions[q.tx].user_id = q.user_id
                  /\ transactions[q.tx].type = q.type
                  /\ transactions[q.tx].amount = q.amount
           /\ (q.pc = "done" /\ ~q.hit /\ q.tx # 0) =>
                  /\ q.status_code = HTTP_202_ACCEPTED
                  /\ q.body.shape = "transaction"
                  /\ q.body.tx.id = q.tx
                  /\ q.body.tx.status = PENDING
                  /\ Cardinality(CreatedFor(q.user_id, q.key)) = 1
                  /\ check_idempotency_key(idempotency_keys, q.user_id, q.key) =
                         IdempotencyKey(q.user_id, q.key, HTTP_202_ACCEPTED, q.body)

\* Check j of the key falls in the window that check i opens.
InWindowOf(i, j) == rate_log[j].at < rate_log[i].at + WindowSeconds

\* C14: counting from a check that finds the key's window empty, the first
\* Limit checks made less than WindowSeconds after it are all allowed, and
\* the next check made less than WindowSeconds after it is denied with
\* retry_after = WindowSeconds.
C14_LimitAdmittedThenDenied ==
    \A i \in DOMAIN rate_log :
        rate_log[i].current_count = 0 =>
            \A j \in DOMAIN rate_log :
                (j >= i /\ InWindowOf(i, j)) =>
                    /\ j < i + Limit => rate_log[j].is_allowed
                    /\ j = i + Limit =>
                           /\ ~rate_log[j].is_allowed
                           /\ rate_log[j].retry_after = WindowSeconds

\* C15: once a check on the key has been denied, a check made
\* WindowSeconds or more after the check before it is allowed and finds no
\* earlier timestamp in the window, one exactly WindowSeconds old included.
C15_AdmissionResumes ==
    \A j \in DOMAIN rate_log :
        (/\ j > 1
         /\ \E i \in 1..(j - 1) : ~rate_log[i].is_allowed
         /\ rate_log[j].at >= rate_log[j - 1].at + WindowSeconds) =>
            /\ rate_log[j].is_allowed
            /\ rate_log[j].current_count = 0

\* A check was denied, the next check came exactly WindowSeconds later
\* and was allowed: the denied check's own timestamp had been evicted.
C15_Witness_AllowedAfterWindow ==
    /\ Len(rate_log) > 1
    /\ ~rate_log[Len(rate_log) - 1].is_allowed
    /\ rate_log[Len(rate_log)].at = rate_log[Len(rate_log) - 1].at + WindowSeconds
    /\ rate_log[Len(rate_log)].is_allowed
    /\ window = {now}

\* C16: a valid request whose (user, key) pair no other request of the same
\* user competes for is answered (202, or 400 for a refused withdrawal)
\* and leaves a record stored for its own user, whatever keys other users
\* have used; and a replayed transaction is one of the requesting user.
C16_KeysScopedPerUser ==
    \A r \in DOMAIN requests :
        LET q == requests[r]
        IN /\ (/\ q.pc = "done" /\ ~q.hit
               /\ ValidKey(q.key) /\ q.type = ""
               /\ Alone(r)) =>
                  /\ q.status_code \in {HTTP_202_ACCEPTED, HTTP_400_BAD_REQUEST}
                  /\ check_idempotency_key(idempotency_keys, q.user_id, q.key).user_id
                         = q.user_id
           /\ (q.pc = "done" /\ q.hit /\ q.body.shape = "transaction") =>
                  q.body.tx.user_id = q.user_id

\* Request r takes its save step.
Saves(r) ==
    /\ requests[r].pc \in {"save", "save_error"}
    /\ requests'[r].pc = "done"

\* C17: no step changes the stored status code or body of a (user, key)
\* pair, and a request whose save finds a record of its pair ends with the
\* error (answered 500) and leaves the table as it was.
C17_RecordWrittenOnce ==
    [][/\ \A k \in idempotency_keys : \A k2 \in idempotency_keys' :
             (k2.user_id = k.user_id /\ k2.key = k.key) => k2 = k
       /\ \A r \in DOMAIN requests :
             (Saves(r) /\ UniqueViolation(idempotency_keys,
                                          requests[r].user_id, requests[r].key)) =>
                 /\ requests'[r].status_code = HTTP_500_INTERNAL_SERVER_ERROR
                 /\ idempotency_keys' = idempotency_keys]_vars

\* A request's save found the record another request had stored for the
\* pair: it is answered 500 and the record still holds the other request's
\* transaction.
C17_Witness_DuplicateSaveFails ==
    \E r \in DOMAIN requests :
        LET q == requests[r]
            stored == check_idempotency_key(idempotency_keys, q.user_id, q.key)
        IN /\ q.pc = "done" /\ ~q.hit /\ q.tx # 0
           /\ q.status_code = HTTP_500_INTERNAL_SERVER_ERROR
           /\ stored # NoKey
           /\ stored.response_status = HTTP_202_ACCEPTED
           /\ stored.response_body.tx.id # q.tx

\* C18: a request with an amount <= 0 or without an Idempotency-Key (header
\* missing or empty) is answered at once with a 4xx status, creates no
\* transaction, and the step that answers it changes no balance, no
\* transaction, no idempotency record and no job.
C18_InvalidRequestNoEffect ==
    [][\A r \in DOMAIN requests :
          (/\ requests'[r].pc # "new"
           /\ requests'[r].type # ""
           /\ \/ requests'[r].amount <= 0
              \/ requests'[r].key \in {NoHeader, EmptyHeader}) =>
              /\ requests'[r].pc = "done"
              /\ requests'[r].status_code \in 400..499
              /\ requests'[r].tx = 0
              /\ requests'[r] # requests[r] =>
                     UNCHANGED <<balance, transactions, idempotency_keys, jobs>>]_vars

\* A request with amount 0 and one without the header have been answered
\* 422, and nothing has been created.
C18_Witness_InvalidRejected ==
    /\ \E r \in DOMAIN requests :
          /\ requests[r].pc = "done"
          /\ requests[r].amount = 0 /\ requests[r].type = DEPOSIT
          /\ requests[r].status_code = HTTP_422_UNPROCESSABLE_ENTITY
    /\ \E r \in DOMAIN requests :
          /\ requests[r].pc = "done"
          /\ requests[r].key = NoHeader
          /\ requests[r].status_code = HTTP_422_UNPROCESSABLE_ENTITY
    /\ transactions = <<>>
    /\ idempotency_keys = {}
    /\ \A t \in TxIds : jobs[t] = NoJob

\* The HMAC under the shared secret of the key-sorted, whitespace-free
\* payload of delivery h, signature field removed.
ExpectedSignature(h) ==
    hmac_sha256(WEBHOOK_SECRET,
                PayloadText(CANONICAL, h.transaction_id, h.status,
                            h.bank_reference, h.error_message))

\* C19: a delivery whose signature is not the HMAC of its canonical payload
\* under the shared secret is rejected in a step that changes no transaction,
\* balance or job, and a rejected delivery never becomes a task.
C19_BadSignatureRejected ==
    [][\A w \in DOMAIN webhooks :
          /\ (/\ webhooks[w].pc = "new"
              /\ webhooks'[w].pc # "new"
              /\ webhooks'[w].signature # ExpectedSignature(webhooks'[w])) =>
                 /\ webhooks'[w].pc = "rejected"
                 /\ UNCHANGED <<balance, transactions, jobs, ledger>>
          /\ webhooks[w].pc = "rejected" => webhooks'[w] = webhooks[w]]_vars

\* Two deliveries for a pending transaction were rejected: one signed under
\* another secret, one signed under the shared secret over a body that
\* was not in canonical form.
C19_Witness_Rejected ==
    \E w1, w2 \in DOMAIN webhooks :
        /\ webhooks[w1].pc = "rejected"
        /\ webhooks[w1].signature.secret = OtherSecret
        /\ webhooks[w2].pc = "rejected"
        /\ webhooks[w2].signature.secret = WEBHOOK_SECRET
        /\ webhooks[w2].form = PRETTY
        /\ transactions[webhooks[w2].transaction_id].status = PENDING

\* C20: a webhook task that starts when its transaction is success or
\* failed ends at once, whatever status and reference it carries: the step
\* changes no transaction and no balance, and the task takes no further
\* step.
C20_TerminalWebhookNoOp ==
    [][\A w \in DOMAIN webhooks :
          /\ (/\ webhooks[w].pc = "queued"
              /\ webhooks'[w] # webhooks[w]
              /\ transactions[webhooks[w].transaction_id].status \in {SUCCESS, FAILED}) =>
                 /\ webhooks'[w].pc = "ignored"
                 /\ UNCHANGED <<transactions, balance, ledger>>
          /\ webhooks[w].pc = "ignored" => webhooks'[w] = webhooks[w]]_vars

\* A success webhook with its own bank reference found its transaction
\* failed and was dropped: the transaction is still failed, without the
\* webhook's reference.
C20_Witness_Ignored ==
    \E w \in DOMAIN webhooks :
        /\ webhooks[w].pc = "ignored"
        /\ webhooks[w].status = "success"
        /\ transactions[webhooks[w].transaction_id].status = FAILED
        /\ transactions[webhooks[w].transaction_id].bank_reference
               # webhooks[w].bank_reference
        /\ ledger[webhooks[w].transaction_id].webhook = 0

\* C21: a transaction has a bank reference only while its status is
\* success, and a bank reference once set is never replaced by another.
C21_BankReferenceOnlyOnSuccess ==
    [][\A t \in DOMAIN transactions :
          /\ transactions'[t].bank_reference # NoRef =>
                 transactions'[t].status = SUCCESS
          /\ transactions[t].bank_reference # NoRef =>
                 transactions'[t].bank_reference = transactions[t].bank_reference]_vars

\* C22: a run of the cleanup task deletes exactly the records created
\* earlier than its time minus its hours argument, returns their number,
\* and changes no other record, no transaction and no balance.
C22_PurgeDeletesOldOnly ==
    [][purge_log' # purge_log =>
          /\ purge_log'.at = now
          /\ idempotency_keys' =
                 {k \in idempotency_keys :
                     ~(k.created_at < purge_log'.at - purge_log'.hours)}
          /\ purge_log'.deleted =
                 Cardinality(idempotency_keys) - Cardinality(idempotency_keys')
          /\ UNCHANGED <<transactions, balance, jobs>>]_vars

\* A run of the cleanup task deleted one record and kept a record created
\* exactly at the cutoff.
C22_Witness_OneDeletedOneKept ==
    /\ purge_log.deleted = 1
    /\ purge_log.at = now
    /\ \E k \in idempotency_keys : k.created_at = purge_log.at - purge_log.hours

\* C23: a listing returns only transactions that match every given filter,
\* no transaction twice, most recent first, at most limit of them starting
\* at offset, and a total equal to the number of all matching transactions.
C23_ListingFilteredOrderedPaged ==
    listing # NoListing =>
        LET items == listing.items
            hit == {i \in DOMAIN transactions :
                       /\ listing.user_id # NoFilter =>
                              transactions[i].user_id = listing.user_id
                       /\ listing.type # NoFilter =>
                              transactions[i].type = listing.type
                       /\ listing.status # NoFilter =>
                              transactions[i].status = listing.status}
            rest == IF Cardinality(hit) > listing.offset
                    THEN Cardinality(hit) - listing.offset ELSE 0
            at(i) == transactions[i].created_at
        IN /\ \A p \in DOMAIN items : items[p] \in hit
           /\ \A p, q \in DOMAIN items : p # q => items[p] # items[q]
           /\ \A p, q \in DOMAIN items : p < q => at(items[p]) >= at(items[q])
           /\ Len(items) = IF rest < listing.limit THEN rest ELSE listing.limit
           /\ \A p \in DOMAIN items :
                  /\ Cardinality({i \in hit : at(i) > at(items[p])})
                         <= listing.offset + p - 1
                  /\ Cardinality({i \in hit : at(i) >= at(items[p])})
                         >= listing.offset + p
           /\ listing.total = Cardinality(hit)

\* A listing with a filter given skipped the most recent match, returned
\* one older match and counted two matches out of a table that also
\* holds a row that does not match.
C23_Witness_SecondPage ==
    /\ listing.user_id = "u1"
    /\ listing.offset = 1
    /\ listing.limit = 1
    /\ listing.total = 2
    /\ Len(transactions) = 3
    /\ Len(listing.items) = 1
    /\ \E i \in DOMAIN transactions :
           /\ transactions[i].user_id = "u1"
           /\ transactions[i].created_at > transactions[listing.items[1]].created_at

\* C24: a settlement job whose bank call succeeds adds exactly the amount
\* to the user's balance for a deposit and takes exactly the amount off it
\* for a withdrawal (when the debit is not refused), and, with no webhook
\* for the transaction, leaves the transaction in status success with a
\* bank reference of its kind's prefix, "DEP" for a deposit and "WTH" for a
\* withdrawal.
C24_SuccessfulSettlement ==
    [][\A t \in DOMAIN transactions :
          LET tx == transactions[t]
              u == tx.user_id
              prefix == IF tx.type = DEPOSIT THEN "DEP" ELSE "WTH"
          IN /\ (jobs[t].pc = "credit" /\ jobs'[t].pc = "done") =>
                    /\ tx.type = DEPOSIT
                    /\ balance' = [balance EXCEPT ![u] = @ + tx.amount]
             /\ (jobs[t].pc = "bank" /\ jobs'[t].pc = "mark_success") =>
                    /\ tx.type = WITHDRAWAL
                    /\ balance' = [balance EXCEPT ![u] = @ - tx.amount]
             /\ (/\ jobs[t].pc \in {"credit", "mark_success"}
                 /\ jobs'[t].pc = "done"
                 /\ \A w \in DOMAIN webhooks :
                        webhooks[w].transaction_id # t \/ webhooks[w].pc = "rejected") =>
                    /\ transactions'[t].status = SUCCESS
                    /\ transactions'[t].bank_reference.prefix = prefix
                    /\ ledger'[t].worker = 1
             /\ (jobs[t].pc = "bank" /\ jobs'[t].pc \in {"credit", "mark_success"}) =>
                    jobs'[t].bank = BANK_OK]_vars

\* A deposit and a withdrawal were both settled by their jobs: each is in
\* status success with the reference of its kind, and the balance is the
\* initial balance plus the deposit minus the withdrawal.
C24_Witness_DepositAndWithdrawalSettled ==
    \E d, w \in DOMAIN transactions :
        /\ transactions[d].type = DEPOSIT /\ transactions[w].type = WITHDRAWAL
        /\ transactions[d].user_id = transactions[w].user_id
        /\ jobs[d].pc = "done" /\ jobs[w].pc = "done"
        /\ jobs[d].bank = BANK_OK /\ jobs[w].bank = BANK_OK
        /\ transactions[d].status = SUCCESS /\ transactions[w].status = SUCCESS
        /\ transactions[d].bank_reference.prefix = "DEP"
        /\ transactions[w].bank_reference.prefix = "WTH"
        /\ balance[transactions[d].user_id] =
               InitialBalance + transactions[d].amount - transactions[w].amount

\* C25: in every reachable state a transaction in status success has had
\* its ledger mutation applied (by its settlement job or by a webhook task).
C25_SuccessAfterLedgerMutation ==
    \A t \in DOMAIN transactions :
        transactions[t].status = SUCCESS =>
            ledger[t].worker + ledger[t].webhook >= 1

\* C26: of two deliveries of the settlement task of one transaction that
\* overlap, at most one calls the bank and at most one applies the ledger
\* mutation.
C26_OneDeliveryProcesses ==
    \A t \in DOMAIN transactions :
        /\ ledger[t].worker <= 1
        /\ ~(jobs[t].bank # "" /\ jobs[Redelivery(t)].bank # "")

\* C27: when the debit of a withdrawal is refused after a successful bank
\* call (balance < amount), the balance stays as it is and the task's next
\* write ends the transaction in status failed with the insufficient-balance
\* reason (available and required amounts) as its error message; the task
\* then is over.
C27_RefusedDebitFails ==
    [][\A j \in DOMAIN jobs :
          LET t == TransactionOf(j)
          IN /\ (/\ jobs[j].pc = "bank"
                 /\ jobs'[j].pc = "except"
                 /\ jobs'[j].bank = BANK_OK) =>
                    /\ transactions[t].type = WITHDRAWAL
                    /\ balance[transactions[t].user_id] < transactions[t].amount
                    /\ balance' = balance
                    /\ ledger' = ledger
             /\ (/\ jobs[j].pc = "except"
                 /\ jobs[j].bank = BANK_OK) =>
                    (jobs'[j] # jobs[j] =>
                        /\ jobs'[j].pc = "done"
                        /\ transactions'[t].status = FAILED
                        /\ transactions'[t].error_message.text = "Insufficient balance"
                        /\ transactions'[t].error_message.required = transactions[t].amount
                        /\ transactions'[t].error_message.available <
                               transactions[t].amount
                        /\ balance' = balance)]_vars

\* A withdrawal whose debit was refused after a successful bank call is
\* failed with the reason, its job is over, no ledger mutation was applied
\* for it and the balance is the one the reason reports.
C27_Witness_RefusedDebit ==
    \E t \in DOMAIN transactions :
        /\ transactions[t].type = WITHDRAWAL
        /\ jobs[t].pc = "done"
        /\ jobs[t].bank = BANK_OK
        /\ ledger[t] = NoLedger
        /\ transactions[t].status = FAILED
        /\ transactions[t].error_message.text = "Insufficient balance"
        /\ transactions[t].error_message.required = transactions[t].amount
        /\ balance[transactions[t].user_id] = transactions[t].error_message.available
        /\ balance[transactions[t].user_id] < transactions[t].amount

\* C28: when the debit of a success webhook for a withdrawal is refused
\* (balance < amount), the webhook task leaves the balance as it is and
\* marks the transaction failed.
C28_WebhookRefusedDebitFails ==
    [][\A w \in DOMAIN webhooks :
          LET t == webhooks[w].transaction_id
          IN (/\ webhooks[w].pc = "apply"
              /\ webhooks[w].status = "success"
              /\ transactions[t].type = WITHDRAWAL
              /\ balance[transactions[t].user_id] < transactions[t].amount
              /\ webhooks'[w].pc # "apply") =>
                 /\ balance' = balance
                 /\ transactions'[t].status = FAILED]_vars

\* C29: when the bank call of a settlement task fails with a permanent
\* error (invalid request, or insufficient funds for a withdrawal), the
\* task's write ends the transaction in status failed with the bank's error
\* text as its error message, the task is over without a retry, and the
\* balance is unchanged.
C29_PermanentBankErrorFails ==
    [][\A j \in DOMAIN jobs :
          LET t == TransactionOf(j)
          IN /\ (/\ jobs[j].pc = "bank"
                 /\ jobs'[j] # jobs[j]
                 /\ jobs'[j].bank \in {BankAPIError, InsufficientFundsError}) =>
                    /\ jobs'[j].pc = "done"
                    /\ jobs'[j].retries = jobs[j].retries
                    /\ jobs'[j].exc = ""
                    /\ transactions'[t].status = FAILED
                    /\ transactions'[t].error_message =
                           Msg(BankErrorText(jobs'[j].bank), FALSE, 0, 0)
                    /\ jobs'[j].bank = InsufficientFundsError =>
                           transactions[t].type = WITHDRAWAL
                    /\ balance' = balance
                    /\ ledger' = ledger
             /\ jobs[j].pc = "done" => jobs'[j] = jobs[j]]_vars

\* The bank refused a withdrawal for insufficient funds on the first
\* attempt: the transaction is failed with the bank's text, the job is over
\* and the balance is the initial one.
C29_Witness_InsufficientFunds ==
    \E t \in DOMAIN transactions :
        /\ transactions[t].type = WITHDRAWAL
        /\ jobs[t].pc = "done"
        /\ jobs[t].bank = InsufficientFundsError
        /\ jobs[t].retries = 0
        /\ transactions[t].status = FAILED
        /\ transactions[t].error_message.text = "Insufficient funds in bank account"
        /\ balance[transactions[t].user_id] = InitialBalance
        /\ ledger[t] = NoLedger

\* C30: a settlement task that finds its transaction already in status
\* success or failed returns at once: no bank call, no change to the
\* transaction, to any balance or to the ledger.
C30_TerminalJobIsNoOp ==
    [][\A j \in DOMAIN jobs :
          LET t == TransactionOf(j)
          IN (/\ jobs[j].pc = "queued"
              /\ jobs'[j] # jobs[j]
              /\ transactions[t].status \in {SUCCESS, FAILED}) =>
                 /\ jobs'[j].pc = "done"
                 /\ jobs'[j].bank = jobs[j].bank
                 /\ jobs'[j].retries = jobs[j].retries
                 /\ transactions' = transactions
                 /\ balance' = balance
                 /\ ledger' = ledger]_vars

\* A webhook failed the transaction before its settlement task started:
\* the task is over without a bank call and without a ledger mutation, and
\* the transaction is as the webhook left it.
C30_Witness_JobAfterWebhook ==
    \E t \in DOMAIN transactions, w \in DOMAIN webhooks :
        /\ webhooks[w].transaction_id = t
        /\ webhooks[w].pc = "done"
        /\ webhooks[w].status = "failed"
        /\ jobs[t].pc = "done"
        /\ jobs[t].bank = ""
        /\ jobs[t].retries = 0
        /\ ledger[t] = NoLedger
        /\ transactions[t].status = FAILED
        /\ transactions[t].bank_reference = webhooks[w].bank_reference
        /\ balance[transactions[t].user_id] = InitialBalance

\* C31: among concurrent checks of one key whose timestamps are pairwise
\* different and lie within one window (less than WindowSeconds apart), no
\* more than Limit are allowed.
C31_NoUndercountUnderConcurrency ==
    \A i \in DOMAIN rate_log :
        Cardinality({j \in DOMAIN rate_log :
                        /\ rate_log[j].is_allowed
                        /\ rate_log[j].at <= rate_log[i].at
                        /\ rate_log[j].at > rate_log[i].at - WindowSeconds
                        /\ \A k \in DOMAIN rate_log :
                               k # j => rate_log[k].at # rate_log[j].at}) <= Limit

\* C32: for every check, with count the number of timestamps of the key
\* that are younger than WindowSeconds at the check (those left after the
\* eviction, before the check's own is inserted): the check is allowed
\* exactly when count < Limit, remaining is max(0, Limit - count - 1), and
\* retry_after is WindowSeconds when denied and 0 when allowed.
C32_ResultFromCount ==
    [][rate_log' # rate_log =>
          LET r == rate_log'[Len(rate_log')]
              count == Cardinality({score \in window : score > r.at - WindowSeconds})
          IN /\ r.at = now
             /\ r.current_count = count
             /\ r.is_allowed <=> count < Limit
             /\ r.remaining = IF Limit - count - 1 > 0 THEN Limit - count - 1 ELSE 0
             /\ r.retry_after = IF r.is_allowed THEN 0 ELSE WindowSeconds]_vars

\* A check found more than Limit timestamps in the window: it was denied
\* with remaining 0 and retry_after WindowSeconds, after a check that was
\* allowed with remaining Limit - 1.
C32_Witness_DeniedAboveLimit ==
    /\ Len(rate_log) > 1
    /\ rate_log[1].is_allowed
    /\ rate_log[1].remaining = Limit - 1
    /\ rate_log[1].retry_after = 0
    /\ \E j \in DOMAIN rate_log :
           /\ rate_log[j].current_count > Limit
           /\ ~rate_log[j].is_allowed
           /\ rate_log[j].remaining = 0
           /\ rate_log[j].retry_after = WindowSeconds

C35_AdjustmentTouchesOneUser ==
    [][/\ \A j \in DOMAIN jobs :
             LET tx == transactions[TransactionOf(j)]
             IN /\ (\/ jobs[j].pc = "credit" /\ jobs'[j].pc = "done"
                    \/ jobs[j].pc = "bank" /\ jobs'[j].pc = "mark_success") =>
                       /\ DOMAIN balance' = DOMAIN balance
                       /\ \A u \in DOMAIN balance :
                              u # tx.user_id => balance'[u] = balance[u]
                       /\ balance'[tx.user_id] =
                              IF tx.type = DEPOSIT
                              THEN balance[tx.user_id] + tx.amount
                              ELSE balance[tx.user_id] - tx.amount
                       /\ transactions' = transactions
                /\ (/\ jobs[j].pc = "bank"
                    /\ jobs'[j].pc = "except"
                    /\ jobs'[j].bank = BANK_OK) =>
                       /\ balance' = balance
                       /\ transactions' = transactions
                       /\ ledger' = ledger
       /\ \A w \in DOMAIN webhooks :
             LET tx == transactions[webhooks[w].transaction_id]
             IN /\ (webhooks[w].pc = "apply" /\ webhooks'[w].pc = "mark") =>
                       /\ DOMAIN balance' = DOMAIN balance
                       /\ \A u \in DOMAIN balance :
                              u # tx.user_id => balance'[u] = balance[u]
                       /\ balance'[tx.user_id] =
                              IF tx.type = DEPOSIT
                              THEN balance[tx.user_id] + tx.amount
                              ELSE balance[tx.user_id] - tx.amount
                       /\ transactions' = transactions
                /\ (webhooks[w].pc = "apply" /\ webhooks'[w].pc = "raised") =>
                       /\ balance' = balance
                       /\ transactions' = transactions
                       /\ ledger' = ledger]_vars

\* With two users, one user's transaction has had its ledger mutation
\* applied and that user's balance has changed, while the other user, who
\* has a transaction of their own, still has the initial balance.
C35_Witness_OtherUserUntouched ==
    \E t, o \in DOMAIN transactions :
        /\ transactions[t].user_id # transactions[o].user_id
        /\ ledger[t].worker = 1
        /\ ledger[o] = NoLedger
        /\ balance[transactions[t].user_id] # InitialBalance
        /\ balance[transactions[o].user_id] = InitialBalance

\* The sum of the amounts of user u's transactions of the given kind in
\* status success, among the first n transactions.
RECURSIVE SettledSum(_, _, _)
SettledSum(u, type, n) ==
    IF n = 0 THEN 0
    ELSE SettledSum(u, type, n - 1) +
         (IF /\ transactions[n].user_id = u
             /\ transactions[n].type = type
             /\ transactions[n].status = SUCCESS
          THEN transactions[n].amount ELSE 0)

\* No settlement task and no webhook task is in progress.
Quiescent ==
    /\ \A j \in DOMAIN jobs : jobs[j].pc \in {"none", "done"}
    /\ \A w \in DOMAIN webhooks :
           webhooks[w].pc \in {"new", "rejected", "ignored", "raised", "done"}

\* C36: whenever no settlement task and no webhook task is in progress,
\* each user's balance is the initial balance plus the user's deposits in
\* status success minus the user's withdrawals in status success.
C36_BalanceMatchesSettled ==
    Quiescent =>
        \A u \in DOMAIN balance :
            balance[u] = InitialBalance
                           + SettledSum(u, DEPOSIT, Len(transactions))
                           - SettledSum(u, WITHDRAWAL, Len(transactions))

\* C37: a request answered 500 because queueing its job or saving its
\* idempotency record failed has left no transaction behind.
C37_IntakeAllOrNothing ==
    \A r \in DOMAIN requests :
        (/\ requests[r].pc = "done"
         /\ requests[r].status_code = HTTP_500_INTERNAL_SERVER_ERROR) =>
            requests[r].tx \notin DOMAIN transactions

StoredBy(record) ==
    IF record.response_body.shape = "transaction"
    THEN record.response_body.tx.type
    ELSE WITHDRAWAL

\* C39: idempotency records are shared by the two endpoints: a request at
\* one endpoint whose (user, key) pair has a record stored by the other
\* endpoint returns that stored response and creates no transaction of its
\* own kind.
C39_RecordsSharedAcrossEndpoints ==
    \A r \in DOMAIN requests :
        LET q == requests[r]
            stored == check_idempotency_key(idempotency_keys, q.user_id, q.key)
        IN (q.pc = "done" /\ q.hit /\ StoredBy(stored) # q.type) =>
               /\ q.status_code = stored.response_status
               /\ q.body = stored.response_body
               /\ q.tx = 0
               /\ \A t \in DOMAIN transactions :
                      ~(/\ transactions[t].user_id = q.user_id
                        /\ transactions[t].idempotency_key = q.key
                        /\ transactions[t].type = q.type)

====
